---- MODULE Spec2Model ----
(***************************************************************************)
(* zkbench: the benchmark report schema (src/src/schema.rs,                *)
(* src/src/platform.rs) with its serde-derived JSON encoding, and the      *)
(* statistics engine (src/src/statistics.rs).                              *)
(*                                                                         *)
(* A value is constructed, serialized to a JSON document, the document may *)
(* be edited in flight (a key removed, set, or an unknown key added), and  *)
(* it is deserialized.  The numeric routines and Metadata::create are      *)
(* applied to inputs drawn from bounded sets.                              *)
(***************************************************************************)
EXTENDS Integers, Sequences, FiniteSets, TLC

VARIABLES op, ty, value, doc, edit, result

vars == <<op, ty, value, doc, edit, result>>

(***************************************************************************)
(* Bounds of the model.                                                    *)
(***************************************************************************)
\* finite f64 values of the schema are 0..MaxFloat
MaxFloat == 1
\* iterations range over 0..MaxIter
MaxIter == 2
\* cpu_count ranges over 0..MaxCpu
MaxCpu == 2

(***************************************************************************)
(* f64: a finite value, NaN, or an infinity.                               *)
(***************************************************************************)
Fin(n) == [k |-> "fin", v |-> n]
NaN == [k |-> "nan", v |-> 0]
PosInf == [k |-> "inf", v |-> 1]
NegInf == [k |-> "inf", v |-> -1]
FloatVals == {Fin(n) : n \in 0..MaxFloat} \cup {NaN, PosInf, NegInf}

(***************************************************************************)
(* Option<T>: None is the empty sequence, Some(x) the one-element one.     *)
(***************************************************************************)
None == <<>>
Some(x) == <<x>>
Option(S) == {None} \cup {Some(x) : x \in S}

(***************************************************************************)
(* JSON documents (serde_json's data model): null, integer and floating    *)
(* point numbers, strings, booleans and objects (a function from keys).    *)
(***************************************************************************)
JNull == [t |-> "null"]
JInt(n) == [t |-> "int", n |-> n]
JFloat(n) == [t |-> "float", n |-> n]
JStr(s) == [t |-> "str", s |-> s]
JBool(b) == [t |-> "bool", b |-> b]
JObj(f) == [t |-> "obj", o |-> f]
EmptyMap == [k \in {} |-> JNull]

(***************************************************************************)
(* The derived schema of each struct: one descriptor per field, in         *)
(* declaration order.  opt: the field is an Option<ty>; skip: the          *)
(* skip_serializing_if predicate ("" when none); default: #[serde(default)]*)
(***************************************************************************)
Fld(name, fty, opt, skip, default) ==
    [name |-> name, ty |-> fty, opt |-> opt, skip |-> skip, default |-> default]

\* MetricValueFields with #[serde(default)] on `value`
MetricValueFields_DefaultValue ==
    << Fld("value", "f64", FALSE, "", TRUE),
       Fld("unit", "String", FALSE, "", FALSE),
       Fld("lower_value", "f64", TRUE, "Option::is_none", FALSE),
       Fld("upper_value", "f64", TRUE, "Option::is_none", FALSE) >>

MetricValueFields ==
    << Fld("value", "f64", FALSE, "", FALSE),
       Fld("unit", "String", FALSE, "", FALSE),
       Fld("lower_value", "f64", TRUE, "Option::is_none", FALSE),
       Fld("upper_value", "f64", TRUE, "Option::is_none", FALSE) >>

TestVectorsFields ==
    << Fld("input_hash", "String", FALSE, "", FALSE),
       Fld("output_hash", "String", FALSE, "", FALSE),
       Fld("verified", "bool", FALSE, "", FALSE) >>

\* BenchmarkResultFields without skip_serializing_if on `test_vectors`
BenchmarkResultFields_NoSkip ==
    << Fld("latency", "MetricValue", TRUE, "Option::is_none", FALSE),
       Fld("memory", "MetricValue", TRUE, "Option::is_none", FALSE),
       Fld("throughput", "MetricValue", TRUE, "Option::is_none", FALSE),
       Fld("iterations", "usize", FALSE, "is_zero", TRUE),
       Fld("test_vectors", "TestVectors", TRUE, "", FALSE),
       Fld("metadata", "HashMap<Value>", FALSE, "HashMap::is_empty", TRUE) >>

\* BenchmarkResultFields without #[serde(default)] on `metadata`
BenchmarkResultFields_NoBagDefault ==
    << Fld("latency", "MetricValue", TRUE, "Option::is_none", FALSE),
       Fld("memory", "MetricValue", TRUE, "Option::is_none", FALSE),
       Fld("throughput", "MetricValue", TRUE, "Option::is_none", FALSE),
       Fld("iterations", "usize", FALSE, "is_zero", TRUE),
       Fld("test_vectors", "TestVectors", TRUE, "Option::is_none", FALSE),
       Fld("metadata", "HashMap<Value>", FALSE, "HashMap::is_empty", FALSE) >>

BenchmarkResultFields ==
    << Fld("latency", "MetricValue", TRUE, "Option::is_none", FALSE),
       Fld("memory", "MetricValue", TRUE, "Option::is_none", FALSE),
       Fld("throughput", "MetricValue", TRUE, "Option::is_none", FALSE),
       Fld("iterations", "usize", FALSE, "is_zero", TRUE),
       Fld("test_vectors", "TestVectors", TRUE, "Option::is_none", FALSE),
       Fld("metadata", "HashMap<Value>", FALSE, "HashMap::is_empty", TRUE) >>

\* PlatformFields with `cpu_vendor` a plain String
PlatformFields_RequiredVendor ==
    << Fld("os", "String", FALSE, "", FALSE),
       Fld("arch", "String", FALSE, "", FALSE),
       Fld("cpu_count", "usize", FALSE, "", FALSE),
       Fld("cpu_vendor", "String", FALSE, "", FALSE),
       Fld("gpu_vendor", "String", TRUE, "Option::is_none", FALSE) >>

PlatformFields ==
    << Fld("os", "String", FALSE, "", FALSE),
       Fld("arch", "String", FALSE, "", FALSE),
       Fld("cpu_count", "usize", FALSE, "", FALSE),
       Fld("cpu_vendor", "String", TRUE, "Option::is_none", FALSE),
       Fld("gpu_vendor", "String", TRUE, "Option::is_none", FALSE) >>

MetadataFields ==
    << Fld("implementation", "String", FALSE, "", FALSE),
       Fld("version", "String", FALSE, "", FALSE),
       Fld("commit_sha", "String", FALSE, "", FALSE),
       Fld("timestamp", "String", FALSE, "", FALSE),
       Fld("platform", "Platform", FALSE, "", FALSE) >>

BenchmarkReportFields ==
    << Fld("metadata", "Metadata", FALSE, "", FALSE),
       Fld("benchmarks", "HashMap<BenchmarkResult>", FALSE, "", FALSE) >>

StructTypes ==
    {"MetricValue", "TestVectors", "BenchmarkResult", "Platform", "Metadata",
     "BenchmarkReport"}

Fields(t) ==
    CASE t = "MetricValue" -> MetricValueFields
      [] t = "TestVectors" -> TestVectorsFields
      [] t = "BenchmarkResult" -> BenchmarkResultFields
      [] t = "Platform" -> PlatformFields
      [] t = "Metadata" -> MetadataFields
      [] t = "BenchmarkReport" -> BenchmarkReportFields

FieldNames(t) == {Fields(t)[i].name : i \in DOMAIN Fields(t)}
FieldOf(t, name) ==
    Fields(t)[CHOOSE i \in DOMAIN Fields(t) : Fields(t)[i].name = name]

\* Platform with #[serde(deny_unknown_fields)]
DenyUnknownFields_Platform(t) == t = "Platform"

\* no struct carries #[serde(deny_unknown_fields)]
DenyUnknownFields(t) == FALSE

\* the element type of a HashMap<String, T>
IsMap(t) == t \in {"HashMap<Value>", "HashMap<BenchmarkResult>"}
ElemTy(t) == IF t = "HashMap<Value>" THEN "Value" ELSE "BenchmarkResult"

\* is_zero with the comparison inverted
is_zero_inverted(val) == val # 0

is_zero(val) == val = 0

\* Default::default() of a #[serde(default)] field's type
DefaultOf(t) ==
    CASE t = "usize" -> 0
      [] t = "f64" -> Fin(0)
      [] OTHER -> EmptyMap

(***************************************************************************)
(* Serialize.                                                              *)
(***************************************************************************)
\* serde_json writes a non-finite f64 as null
SerializeF64(x) == IF x.k = "fin" THEN JFloat(x.v) ELSE JNull

SkipSerializing(f, x) ==
    CASE f.skip = "Option::is_none" -> x = None
      [] f.skip = "is_zero" -> is_zero(x)
      [] f.skip = "HashMap::is_empty" -> DOMAIN x = {}
      [] OTHER -> FALSE

RECURSIVE Serialize(_, _)
SerializeField(f, x) ==
    IF f.opt
    THEN IF x = None THEN JNull ELSE Serialize(f.ty, x[1])
    ELSE Serialize(f.ty, x)

SerializeStruct(t, x) ==
    LET kept == {n \in FieldNames(t) : ~SkipSerializing(FieldOf(t, n), x[n])}
    IN  JObj([n \in kept |-> SerializeField(FieldOf(t, n), x[n])])

Serialize(t, x) ==
    CASE t = "f64" -> SerializeF64(x)
      [] t = "String" -> JStr(x)
      [] t = "usize" -> JInt(x)
      [] t = "bool" -> JBool(x)
      [] t = "Value" -> x
      [] IsMap(t) -> JObj([n \in DOMAIN x |-> Serialize(ElemTy(t), x[n])])
      [] OTHER -> SerializeStruct(t, x)

(***************************************************************************)
(* Deserialize.  A result is Ok(value) or Err(errors): the errors are the  *)
(* set of errors the decoder can report, one for each order in which the   *)
(* document lists its keys (the first failing entry decides).              *)
(***************************************************************************)
Ok(x) == [ok |-> TRUE, val |-> x, errs |-> {}]
Err(E) == [ok |-> FALSE, val |-> <<>>, errs |-> E]
InvalidType == [kind |-> "invalid_type", field |-> ""]
InvalidValue == [kind |-> "invalid_value", field |-> ""]
MissingField(n) == [kind |-> "missing_field", field |-> n]
UnknownField(n) == [kind |-> "unknown_field", field |-> n]

Min(S) == CHOOSE i \in S : \A j \in S : i <= j

RECURSIVE Deserialize(_, _)
DeserializeOption(t, j) ==
    IF j.t = "null"
    THEN Ok(None)
    ELSE LET r == Deserialize(t, j) IN IF r.ok THEN Ok(Some(r.val)) ELSE r

DeserializeField(f, j) ==
    IF f.opt THEN DeserializeOption(f.ty, j) ELSE Deserialize(f.ty, j)

\* a field whose key the document does not hold
MissingFieldValue(f) ==
    IF f.opt THEN Ok(None)
    ELSE IF f.default THEN Ok(DefaultOf(f.ty))
    ELSE Err({MissingField(f.name)})

DeserializeStruct(t, j) ==
    IF j.t # "obj" THEN Err({InvalidType})
    ELSE
    LET fs == Fields(t)
        present == {i \in DOMAIN fs : fs[i].name \in DOMAIN j.o}
        absent == DOMAIN fs \ present
        r == [i \in DOMAIN fs |->
                IF i \in present
                THEN DeserializeField(fs[i], j.o[fs[i].name])
                ELSE MissingFieldValue(fs[i])]
        unknown == IF DenyUnknownFields(t)
                   THEN {UnknownField(n) : n \in DOMAIN j.o \ FieldNames(t)}
                   ELSE {}
        entryErrs == unknown \cup UNION {r[i].errs : i \in present}
        missing == {i \in absent : ~r[i].ok}
    IN  IF entryErrs # {} THEN Err(entryErrs)
        ELSE IF missing # {} THEN Err(r[Min(missing)].errs)
        ELSE Ok([n \in FieldNames(t) |->
                    r[CHOOSE i \in DOMAIN fs : fs[i].name = n].val])

DeserializeMap(t, j) ==
    IF j.t # "obj" THEN Err({InvalidType})
    ELSE
    LET r == [n \in DOMAIN j.o |-> Deserialize(ElemTy(t), j.o[n])]
        errs == UNION {r[n].errs : n \in DOMAIN j.o}
    IN  IF errs # {} THEN Err(errs) ELSE Ok([n \in DOMAIN j.o |-> r[n].val])

Deserialize(t, j) ==
    CASE t = "f64" ->
            IF j.t \in {"int", "float"} THEN Ok(Fin(j.n)) ELSE Err({InvalidType})
      [] t = "String" -> IF j.t = "str" THEN Ok(j.s) ELSE Err({InvalidType})
      [] t = "usize" ->
            IF j.t # "int" THEN Err({InvalidType})
            ELSE IF j.n < 0 THEN Err({InvalidValue})
            ELSE Ok(j.n)
      [] t = "bool" -> IF j.t = "bool" THEN Ok(j.b) ELSE Err({InvalidType})
      [] t = "Value" -> Ok(j)
      [] IsMap(t) -> DeserializeMap(t, j)
      [] OTHER -> DeserializeStruct(t, j)

(***************************************************************************)
(* Constructors and the values a producer can build.  Every field of every *)
(* struct is public, so a struct literal can hold any combination.         *)
(***************************************************************************)
MetricValue_new(v, unit) ==
    [value |-> v, unit |-> unit, lower_value |-> None, upper_value |-> None]

\* MetricValue::with_bounds that forgets the upper bound
MetricValue_with_bounds_LowerOnly(v, unit, lower, upper) ==
    [value |-> v, unit |-> unit, lower_value |-> Some(lower),
     upper_value |-> None]

MetricValue_with_bounds(v, unit, lower, upper) ==
    [value |-> v, unit |-> unit, lower_value |-> Some(lower),
     upper_value |-> Some(upper)]

MetricValue_default ==
    [value |-> Fin(0), unit |-> "", lower_value |-> None, upper_value |-> None]

BenchmarkResult_default ==
    [latency |-> None, memory |-> None, throughput |-> None, iterations |-> 0,
     test_vectors |-> None, metadata |-> EmptyMap]

Units == {"ns", "ms"}

MetricValues ==
    [value : FloatVals, unit : Units, lower_value : Option(FloatVals),
     upper_value : Option(FloatVals)] \cup {MetricValue_default}

TestVectorsValues ==
    [input_hash : {"abc123"}, output_hash : {"def456"}, verified : BOOLEAN]

Platforms ==
    [os : {"linux", "macos"}, arch : {"x86_64"}, cpu_count : 0..MaxCpu,
     cpu_vendor : Option({"Intel Core i7"}),
     gpu_vendor : Option({"NVIDIA GeForce RTX 4090"})]

\* serde_json::Value entries of the free-form bag, one of them nested
BagValues == {JNull, JInt(1), JObj([n \in {"nested"} |-> JStr("x")])}
Bags == {EmptyMap} \cup {[n \in {"note"} |-> b] : b \in BagValues}

\* the latency metrics of a result: plain or bounded, finite or not
LatencyMetrics ==
    {MetricValue_new(v, "ns") : v \in {Fin(MaxFloat), NaN}}
    \cup {MetricValue_with_bounds(Fin(MaxFloat), "ns", Fin(0), u) :
            u \in {Fin(MaxFloat), PosInf}}

BenchmarkResults ==
    [latency : Option(LatencyMetrics),
     memory : Option({MetricValue_new(Fin(MaxFloat), "KB")}),
     throughput : Option({MetricValue_new(Fin(MaxFloat), "ops/s")}),
     iterations : 0..MaxIter,
     test_vectors : Option(TestVectorsValues),
     metadata : Bags]

Metadatas ==
    [implementation : {"test-impl"}, version : {"1.0.0"},
     commit_sha : {"unknown", "0123456789ab"},
     timestamp : {"2026-01-01T00:00:00+00:00"},
     platform : {p \in Platforms : /\ p.os = "linux"
                                   /\ p.cpu_count = MaxCpu
                                   /\ p.gpu_vendor = None}]

BenchmarkNames == {"bench1", "my_bench"}

ReportResults ==
    {r \in BenchmarkResults : /\ r.memory = None
                              /\ r.throughput = None
                              /\ r.test_vectors = None
                              /\ r.metadata = EmptyMap
                              /\ r.iterations \in {0, MaxIter}}

BenchmarkReports ==
    [metadata : Metadatas,
     benchmarks : UNION {[S -> ReportResults] : S \in SUBSET BenchmarkNames}]

Values(t) ==
    CASE t = "MetricValue" -> MetricValues
      [] t = "TestVectors" -> TestVectorsValues
      [] t = "BenchmarkResult" -> BenchmarkResults
      [] t = "Platform" -> Platforms
      [] t = "Metadata" -> Metadatas
      [] t = "BenchmarkReport" -> BenchmarkReports

(***************************************************************************)
(* Exact arithmetic standing for f64 arithmetic on finite values: a        *)
(* rational n/d in lowest terms with d > 0.  The square root is taken to   *)
(* the precision 1/SqrtScale, rounded down.                                *)
(***************************************************************************)
SqrtScale == 100

Abs(a) == IF a < 0 THEN -a ELSE a

RECURSIVE GCD(_, _)
GCD(a, b) == IF b = 0 THEN a ELSE GCD(b, a % b)

Rat(n, d) ==
    LET g == GCD(Abs(n), Abs(d))
        sgn == IF d < 0 THEN -1 ELSE 1
    IN  [n |-> sgn * (n \div g), d |-> sgn * (d \div g)]

RAdd(a, b) == Rat(a.n * b.d + b.n * a.d, a.d * b.d)
RSub(a, b) == Rat(a.n * b.d - b.n * a.d, a.d * b.d)
RMul(a, b) == Rat(a.n * b.n, a.d * b.d)
RDiv(a, b) == Rat(a.n * b.d, a.d * b.n)
RAbs(a) == [n |-> Abs(a.n), d |-> a.d]
\* comparisons, cross-multiplied by the denominators' least common multiple
RLess(a, b) ==
    LET g == GCD(a.d, b.d) IN a.n * (b.d \div g) < b.n * (a.d \div g)
RLeq(a, b) ==
    LET g == GCD(a.d, b.d) IN a.n * (b.d \div g) <= b.n * (a.d \div g)

\* the largest r in lo..hi-1 with r*r <= x, given lo*lo <= x < hi*hi
RECURSIVE ISqrtBetween(_, _, _)
ISqrtBetween(lo, hi, x) ==
    IF hi - lo <= 1 THEN lo
    ELSE LET mid == (lo + hi) \div 2
         IN  IF mid * mid <= x
             THEN ISqrtBetween(mid, hi, x)
             ELSE ISqrtBetween(lo, mid, x)

ISqrt(x) == ISqrtBetween(0, IF x < 46340 THEN x + 1 ELSE 46340, x)

\* f64::sqrt
Sqrt(r) == Rat(ISqrt((r.n * SqrtScale * SqrtScale) \div r.d), SqrtScale)

(***************************************************************************)
(* The outcome of a call: it returns a value or it panics.                 *)
(***************************************************************************)
Return(x) == [outcome |-> "return", val |-> x]
Panic(msg) == [outcome |-> "panic", val |-> msg]

(***************************************************************************)
(* statistics.rs                                                           *)
(***************************************************************************)
\* values.iter().sum::<f64>()
RECURSIVE SumOf(_)
SumOf(values) ==
    IF values = <<>> THEN Rat(0, 1)
    ELSE RAdd(Rat(Head(values), 1), SumOf(Tail(values)))

\* values.iter().map(|x| (x - mean).powi(2)).sum::<f64>()
RECURSIVE SumSquaredDeviations(_, _)
SumSquaredDeviations(values, mean) ==
    IF values = <<>> THEN Rat(0, 1)
    ELSE LET dev == RSub(Rat(Head(values), 1), mean)
         IN  RAdd(RMul(dev, dev), SumSquaredDeviations(Tail(values), mean))

\* calculate_statistics without the assertion: an empty slice gets a default
calculate_statistics_unchecked(values) ==
    IF Len(values) = 0
    THEN Return(<<Rat(0, 1), Rat(0, 1)>>)
    ELSE LET n == Rat(Len(values), 1)
             mean == RDiv(SumOf(values), n)
         IN  IF Len(values) < 2
             THEN Return(<<mean, Rat(0, 1)>>)
             ELSE LET variance == RDiv(SumSquaredDeviations(values, mean),
                                       RSub(n, Rat(1, 1)))
                      stdev == Sqrt(variance)
                  IN  Return(<<mean, stdev>>)

\* calculate_statistics with the population divisor n
calculate_statistics_population(values) ==
    IF Len(values) = 0
    THEN Panic("Cannot calculate statistics on empty slice")
    ELSE LET n == Rat(Len(values), 1)
             mean == RDiv(SumOf(values), n)
         IN  IF Len(values) < 2
             THEN Return(<<mean, Rat(0, 1)>>)
             ELSE LET variance == RDiv(SumSquaredDeviations(values, mean), n)
                      stdev == Sqrt(variance)
                  IN  Return(<<mean, stdev>>)

calculate_statistics(values) ==
    IF Len(values) = 0
    THEN Panic("Cannot calculate statistics on empty slice")
    ELSE LET n == Rat(Len(values), 1)
             mean == RDiv(SumOf(values), n)
         IN  IF Len(values) < 2
             THEN Return(<<mean, Rat(0, 1)>>)
             ELSE LET variance == RDiv(SumSquaredDeviations(values, mean),
                                       RSub(n, Rat(1, 1)))
                      stdev == Sqrt(variance)
                  IN  Return(<<mean, stdev>>)

\* ZScore with the 0.99 level forgotten
ZScore_Only95(confidence) ==
    IF RLess(RAbs(RSub(confidence, Rat(95, 100))), Rat(1, 1000))
    THEN Rat(2, 1)
    ELSE Rat(2, 1)

ZScore(confidence) ==
    IF RLess(RAbs(RSub(confidence, Rat(95, 100))), Rat(1, 1000))
    THEN Rat(2, 1)
    ELSE IF RLess(RAbs(RSub(confidence, Rat(99, 100))), Rat(1, 1000))
    THEN Rat(2576, 1000)
    ELSE Rat(2, 1)

\* calculate_confidence_interval with the two bounds exchanged
calculate_confidence_interval_swapped(mean, stdev, confidence) ==
    LET z == ZScore(confidence)
        margin == RMul(z, stdev)
    IN  <<RAdd(mean, margin), RSub(mean, margin)>>

calculate_confidence_interval(mean, stdev, confidence) ==
    LET z == ZScore(confidence)
        margin == RMul(z, stdev)
    IN  <<RSub(mean, margin), RAdd(mean, margin)>>

\* sample sequences: up to MaxSamples samples out of -1 and 1..MaxSample
MaxSamples == 5
MaxSample == 5
SampleVals == {-1} \cup 1..MaxSample
SampleSeqs == UNION {[1..n -> SampleVals] : n \in 0..MaxSamples}

\* confidence levels: within MaxOffset/10000 of 0.95 and of 0.99, and others
MaxOffset == 15
ConfidenceLevels ==
    {Rat(9500 + k, 10000) : k \in (-MaxOffset)..MaxOffset}
    \cup {Rat(9900 + k, 10000) : k \in (-MaxOffset)..MaxOffset}
    \cup {Rat(k, 100) : k \in {-50, 0, 80, 100, 150}}

\* the samples and the confidence levels of a producer's run
MaxPipelineSamples == 3
PipelineSamples == UNION {[1..n -> SampleVals] : n \in 0..MaxPipelineSamples}
PipelineLevels == {Rat(k, 100) : k \in {-50, 0, 80, 95, 99, 100, 150}}

IntervalInputs == {Rat(k, 1) : k \in {-10, 0, 10, 100}}

(***************************************************************************)
(* Metadata::create and its collaborators.  Text is a sequence of          *)
(* characters; a character takes one byte in UTF-8, or two.                *)
(***************************************************************************)
ShaPrefixLen == 12
Unknown == <<"u", "n", "k", "n", "o", "w", "n">>
Whitespace == {" ", "\n"}
Utf8Len(c) == IF c = "U+00E9" THEN 2 ELSE 1

RECURSIVE ByteLen(_)
ByteLen(s) == IF s = <<>> THEN 0 ELSE Utf8Len(Head(s)) + ByteLen(Tail(s))

RECURSIVE TrimStart(_)
TrimStart(s) ==
    IF s # <<>> /\ Head(s) \in Whitespace THEN TrimStart(Tail(s)) ELSE s

RECURSIVE TrimEnd(_)
TrimEnd(s) ==
    IF s # <<>> /\ s[Len(s)] \in Whitespace
    THEN TrimEnd(SubSeq(s, 1, Len(s) - 1))
    ELSE s

\* str::trim
trim(s) == TrimEnd(TrimStart(s))

\* &s[..k] indexes bytes: it panics when k is inside a character
IsCharBoundary(s, k) == \E i \in 0..Len(s) : ByteLen(SubSeq(s, 1, i)) = k
SliceTo(s, k) ==
    SubSeq(s, 1, CHOOSE i \in 0..Len(s) : ByteLen(SubSeq(s, 1, i)) = k)

get_git_commit_sha(git) ==
    IF ~git.spawned \/ ~git.success \/ ~git.utf8
    THEN Return(Unknown)
    ELSE LET t == trim(git.stdout)
             k == IF ShaPrefixLen < ByteLen(t) THEN ShaPrefixLen ELSE ByteLen(t)
         IN  IF IsCharBoundary(t, k)
             THEN Return(SliceTo(t, k))
             ELSE Panic("byte index is not a char boundary")

\* std::thread::available_parallelism() is Ok(n) with n >= 1, or Err
Platform_current(host) ==
    [os |-> host.os, arch |-> host.arch,
     cpu_count |-> IF host.parallelism = None THEN 1 ELSE host.parallelism[1],
     cpu_vendor |-> host.cpu_vendor, gpu_vendor |-> host.gpu_vendor]

Metadata_create(implementation, version, env) ==
    LET sha == get_git_commit_sha(env.git)
    IN  IF sha.outcome = "panic" THEN sha
        ELSE Return([implementation |-> implementation, version |-> version,
                     commit_sha |-> sha.val, timestamp |-> env.now,
                     platform |-> Platform_current(env.host)])

\* what `git rev-parse HEAD` can do: not start, fail, print bytes that are
\* not UTF-8, or print text
MaxShaLen == 13
Rep(c, n) == [i \in 1..n |-> c]
GitTexts ==
    {lead \o Rep("a", i) \o wide \o Rep("b", j) \o trail :
        lead \in {<<>>, <<" ">>}, i \in 0..MaxShaLen, wide \in {<<>>, <<"U+00E9">>},
        j \in 0..2, trail \in {<<>>, <<"\n">>}}
GitOutcomes ==
    {[spawned |-> FALSE, success |-> FALSE, utf8 |-> FALSE, stdout |-> <<>>],
     [spawned |-> TRUE, success |-> FALSE, utf8 |-> TRUE, stdout |-> <<>>],
     [spawned |-> TRUE, success |-> TRUE, utf8 |-> FALSE, stdout |-> <<>>]}
    \cup {[spawned |-> TRUE, success |-> TRUE, utf8 |-> TRUE, stdout |-> s] :
            s \in GitTexts}
Hosts ==
    [os : {"linux"}, arch : {"x86_64"}, parallelism : Option(1..MaxCpu),
     cpu_vendor : Option({"Intel Core i7"}), gpu_vendor : {None}]
Environments ==
    [git : GitOutcomes, now : {"2026-01-01T00:00:00+00:00"}, host : Hosts]

(***************************************************************************)
(* The pipeline: construct, serialize, edit the document, deserialize.     *)
(***************************************************************************)
NoEdit == [kind |-> "none", key |-> "", val |-> JNull]
NoResult == Err({})

\* what a consumer may find under a key: null, a string, a number, an object
EditValues == {JNull, JStr("x"), JInt(0), JObj(EmptyMap)}
UnknownKeys == {"extra"}

Init ==
    /\ op = "init"
    /\ ty = ""
    /\ value = <<>>
    /\ doc = JNull
    /\ edit = NoEdit
    /\ result = NoResult

Construct ==
    /\ op = "init"
    /\ \E t \in StructTypes : \E x \in Values(t) :
          /\ ty' = t
          /\ value' = x
    /\ op' = "construct"
    /\ UNCHANGED <<doc, edit, result>>

\* serde_json::to_string
to_string ==
    /\ op = "construct"
    /\ doc' = Serialize(ty, value)
    /\ op' = "to_string"
    /\ UNCHANGED <<ty, value, edit, result>>

RemoveKey ==
    /\ op = "to_string"
    /\ \E n \in DOMAIN doc.o :
          /\ doc' = JObj([m \in DOMAIN doc.o \ {n} |-> doc.o[m]])
          /\ edit' = [kind |-> "remove", key |-> n, val |-> JNull]
    /\ op' = "edit"
    /\ UNCHANGED <<ty, value, result>>

SetKey ==
    /\ op = "to_string"
    /\ \E n \in FieldNames(ty) : \E j \in EditValues :
          /\ doc' = JObj([m \in DOMAIN doc.o \cup {n} |->
                            IF m = n THEN j ELSE doc.o[m]])
          /\ edit' = [kind |-> "set", key |-> n, val |-> j]
    /\ op' = "edit"
    /\ UNCHANGED <<ty, value, result>>

AddUnknownKey ==
    /\ op = "to_string"
    /\ \E n \in UnknownKeys : \E j \in EditValues :
          /\ doc' = JObj([m \in DOMAIN doc.o \cup {n} |->
                            IF m = n THEN j ELSE doc.o[m]])
          /\ edit' = [kind |-> "add_unknown", key |-> n, val |-> j]
    /\ op' = "edit"
    /\ UNCHANGED <<ty, value, result>>

\* serde_json::from_str
from_str ==
    /\ op \in {"to_string", "edit"}
    /\ result' = Deserialize(ty, doc)
    /\ op' = "from_str"
    /\ UNCHANGED <<ty, value, doc, edit>>

CalculateStatistics ==
    /\ op = "init"
    /\ \E s \in SampleSeqs :
          /\ value' = s
          /\ result' = calculate_statistics(s)
    /\ op' = "calculate_statistics"
    /\ UNCHANGED <<ty, doc, edit>>

CalculateConfidenceInterval ==
    /\ op = "init"
    /\ \E mean \in IntervalInputs, stdev \in IntervalInputs,
          confidence \in ConfidenceLevels :
          /\ value' = <<mean, stdev, confidence>>
          /\ result' = Return(calculate_confidence_interval(mean, stdev,
                                                            confidence))
    /\ op' = "calculate_confidence_interval"
    /\ UNCHANGED <<ty, doc, edit>>

Create ==
    /\ op = "init"
    /\ \E env \in Environments :
          /\ value' = <<"test-impl", "1.0.0", env>>
          /\ result' = Metadata_create("test-impl", "1.0.0", env)
    /\ op' = "create"
    /\ UNCHANGED <<ty, doc, edit>>

\* MetricValue::new(value, unit)
New ==
    /\ op = "init"
    /\ \E v \in FloatVals, unit \in Units :
          /\ value' = <<v, unit>>
          /\ result' = Return(MetricValue_new(v, unit))
    /\ op' = "new"
    /\ UNCHANGED <<ty, doc, edit>>

\* MetricValue::with_bounds(value, unit, lower, upper)
WithBounds ==
    /\ op = "init"
    /\ \E v \in FloatVals, unit \in Units, lower \in FloatVals,
          upper \in FloatVals :
          /\ value' = <<v, unit, lower, upper>>
          /\ result' = Return(MetricValue_with_bounds(v, unit, lower, upper))
    /\ op' = "with_bounds"
    /\ UNCHANGED <<ty, doc, edit>>

\* MetricValue::default()
Default ==
    /\ op = "init"
    /\ value' = <<>>
    /\ result' = Return(MetricValue_default)
    /\ op' = "default"
    /\ UNCHANGED <<ty, doc, edit>>

\* a producer's run: the statistics of the samples, their confidence
\* interval, and the bounded metric built from them
ProducerPipeline ==
    /\ op = "init"
    /\ \E samples \in PipelineSamples, confidence \in PipelineLevels :
          /\ value' = <<samples, confidence>>
          /\ result' =
                LET stats == calculate_statistics(samples)
                IN  IF stats.outcome = "panic" THEN stats
                    ELSE LET mean == stats.val[1]
                             stdev == stats.val[2]
                             interval == calculate_confidence_interval(
                                             mean, stdev, confidence)
                         IN  Return([stats |-> stats.val,
                                     interval |-> interval,
                                     metric |-> MetricValue_with_bounds(
                                         Fin(mean), "ns", Fin(interval[1]),
                                         Fin(interval[2]))])
    /\ op' = "producer_pipeline"
    /\ UNCHANGED <<ty, doc, edit>>

Next ==
    \/ Construct
    \/ to_string
    \/ RemoveKey
    \/ SetKey
    \/ AddUnknownKey
    \/ from_str
    \/ CalculateStatistics
    \/ CalculateConfidenceInterval
    \/ Create
    \/ New
    \/ WithBounds
    \/ Default
    \/ ProducerPipeline

Spec == Init /\ [][Next]_vars

(***************************************************************************)
(* Properties.                                                             *)
(***************************************************************************)
\* the optional fields and the required fields of each struct, as the
\* report format lists them
OptionalFields(t) ==
    CASE t = "Platform" -> {"cpu_vendor", "gpu_vendor"}
      [] t = "MetricValue" -> {"lower_value", "upper_value"}
      [] t = "BenchmarkResult" ->
            {"latency", "memory", "throughput", "test_vectors"}
      [] OTHER -> {}

RequiredFields(t) ==
    CASE t = "Platform" -> {"os", "arch", "cpu_count"}
      [] t = "MetricValue" -> {"value", "unit"}
      [] t = "TestVectors" -> {"input_hash", "output_hash", "verified"}
      [] t = "Metadata" ->
            {"implementation", "version", "commit_sha", "timestamp", "platform"}
      [] t = "BenchmarkReport" -> {"metadata", "benchmarks"}
      [] OTHER -> {}

Keys(d) == DOMAIN d.o
WithoutKey(d, n) == JObj([m \in Keys(d) \ {n} |-> d.o[m]])
WithKey(d, n, j) == JObj([m \in Keys(d) \cup {n} |-> IF m = n THEN j ELSE d.o[m]])

\* C1: decoding the encoding of a BenchmarkReport succeeds and yields a value
\* equal to the report in every field, whatever floats its metrics hold.
C1_RoundTrip ==
    (op = "from_str" /\ ty = "BenchmarkReport" /\ edit = NoEdit)
        => (result.ok /\ result.val = value)

\* C2: in the encoding of a Platform, MetricValue or BenchmarkResult an
\* optional field that is absent has no key at all (so no null stands for
\* it), and an optional field that is present has its key.
C2_AbsentOptionalOmitted ==
    (op = "to_string")
        => \A n \in OptionalFields(ty) : (value[n] = None) <=> (n \notin Keys(doc))

C2_Witness ==
    /\ op = "to_string"
    /\ ty = "BenchmarkResult"
    /\ value.latency # None
    /\ value.test_vectors = None
    /\ "latency" \in Keys(doc)
    /\ "test_vectors" \notin Keys(doc)

\* C3: the encoding of a BenchmarkResult has no `iterations` key exactly when
\* iterations = 0, a present key carries the value, and a BenchmarkResult
\* document that lacks the key (and is valid with it) decodes with
\* iterations = 0.
C3_IterationsOmission ==
    /\ (op = "to_string" /\ ty = "BenchmarkResult")
          => /\ ("iterations" \notin Keys(doc)) <=> (value.iterations = 0)
             /\ "iterations" \in Keys(doc)
                   => doc.o["iterations"] = JInt(value.iterations)
    /\ (/\ op = "from_str"
        /\ ty = "BenchmarkResult"
        /\ "iterations" \notin Keys(doc)
        /\ Deserialize(ty, WithKey(doc, "iterations", JInt(1))).ok)
          => (result.ok /\ result.val.iterations = 0)

C3_Witness ==
    /\ op = "from_str"
    /\ ty = "BenchmarkResult"
    /\ edit = [kind |-> "remove", key |-> "iterations", val |-> JNull]
    /\ value.iterations = MaxIter
    /\ result.ok
    /\ result.val.iterations = 0

\* C4: a document that lacks a required field does not decode, and when the
\* document is valid but for that field the error is `missing field` naming
\* it; a Platform document with exactly os, arch and cpu_count decodes with
\* cpu_vendor and gpu_vendor absent.
C4_MissingRequiredField ==
    /\ (/\ op = "from_str"
        /\ \E n \in RequiredFields(ty) : n \notin Keys(doc))
          => ~result.ok
    /\ (/\ op = "from_str"
        /\ edit.kind = "remove"
        /\ edit.key \in RequiredFields(ty)
        /\ Deserialize(ty, Serialize(ty, value)).ok)
          => (~result.ok /\ result.errs = {MissingField(edit.key)})
    /\ (/\ op = "from_str"
        /\ ty = "Platform"
        /\ edit.kind \in {"none", "remove"}
        /\ Keys(doc) = {"os", "arch", "cpu_count"})
          => /\ result.ok
             /\ result.val.cpu_vendor = None
             /\ result.val.gpu_vendor = None

C4_Witness ==
    /\ op = "from_str"
    /\ ty = "MetricValue"
    /\ edit = [kind |-> "remove", key |-> "value", val |-> JNull]
    /\ Keys(doc) = {"unit"}
    /\ result = Err({MissingField("value")})

\* C5: calculate_statistics on an empty slice fails towards its caller: it
\* panics and returns no (mean, stdev) pair.
C5_EmptyInputPanics ==
    (op = "calculate_statistics" /\ Len(value) = 0)
        => result.outcome = "panic"

C5_Witness ==
    /\ op = "calculate_statistics"
    /\ value = <<>>
    /\ result.outcome = "panic"

\* C6: for n >= 1 samples the mean is sum / n; the deviation is 0 for n = 1;
\* for n >= 2 it is the non-negative root, to the precision 1/SqrtScale, of
\* (sum of (x - mean)^2) / (n - 1).
RECURSIVE IntSum(_)
IntSum(xs) == IF xs = <<>> THEN 0 ELSE Head(xs) + IntSum(Tail(xs))

\* the sum of (n * x - sum)^2, which is n^2 times the sum of (x - mean)^2
RECURSIVE ScaledSquares(_, _, _)
ScaledSquares(xs, n, sum) ==
    IF xs = <<>> THEN 0
    ELSE (n * Head(xs) - sum) * (n * Head(xs) - sum)
            + ScaledSquares(Tail(xs), n, sum)

C6_MeanAndSampleDeviation ==
    (op = "calculate_statistics" /\ Len(value) >= 1)
        => /\ result.outcome = "return"
           /\ LET n == Len(value)
                  sum == IntSum(value)
                  mean == result.val[1]
                  stdev == result.val[2]
                  \* stdev = k / SqrtScale
                  k == (stdev.n * SqrtScale) \div stdev.d
                  t == ScaledSquares(value, n, sum)
              IN  /\ mean.d > 0
                  /\ mean.n * n = sum * mean.d
                  /\ n = 1 => (stdev = Rat(0, 1) /\ mean = Rat(value[1], 1))
                  /\ n >= 2 =>
                        /\ stdev.n >= 0
                        /\ stdev.d > 0
                        /\ k * stdev.d = stdev.n * SqrtScale
                        /\ k * k * n * n * (n - 1) <= t * SqrtScale * SqrtScale
                        /\ t * SqrtScale * SqrtScale
                              < (k + 1) * (k + 1) * n * n * (n - 1)

C6_Witness ==
    /\ op = "calculate_statistics"
    /\ value = <<1, 2, 3, 4, 5>>
    /\ result.outcome = "return"
    /\ result.val[1] = Rat(3, 1)
    /\ RLeq(RMul(result.val[2], result.val[2]), Rat(5, 2))
    /\ RLess(Rat(24, 10), RMul(result.val[2], result.val[2]))

\* C7: the interval is (mean - z*stdev, mean + z*stdev) with z = 2.576 when
\* the confidence is less than 0.001 away from 0.99 and z = 2.0 for every
\* other confidence; no input makes it fail.
C7_ConfidenceInterval ==
    (op = "calculate_confidence_interval")
        => LET mean == value[1]
               stdev == value[2]
               c == value[3]
               \* |c - 0.99| < 0.001, with c = c.n / c.d
               near99 == Abs(100 * c.n - 99 * c.d) * 10 < c.d
               \* 1000 * z
               z == IF near99 THEN 2576 ELSE 2000
               lower == result.val[1]
               upper == result.val[2]
           IN  /\ result.outcome = "return"
               /\ lower.d > 0
               /\ upper.d > 0
               /\ lower.n * 1000 * mean.d * stdev.d
                     = (1000 * mean.n * stdev.d - z * stdev.n * mean.d) * lower.d
               /\ upper.n * 1000 * mean.d * stdev.d
                     = (1000 * mean.n * stdev.d + z * stdev.n * mean.d) * upper.d

C7_Witness ==
    /\ op = "calculate_confidence_interval"
    /\ value = <<Rat(100, 1), Rat(10, 1), Rat(99, 100)>>
    /\ result.val = <<Rat(7424, 100), Rat(12576, 100)>>

\* C8: Metadata::create returns for every outcome of its collaborators;
\* commit_sha is "unknown" when the commit lookup fails and otherwise a
\* non-empty prefix, of at most 12 characters, of the trimmed git output.
C8_CreateNeverFails ==
    (op = "create")
        => LET git == value[3].git
               failed == ~git.spawned \/ ~git.success \/ ~git.utf8
           IN  /\ result.outcome = "return"
               /\ result.val.implementation = value[1]
               /\ result.val.version = value[2]
               /\ failed => result.val.commit_sha = Unknown
               /\ ~failed =>
                     /\ result.val.commit_sha # <<>>
                     /\ Len(result.val.commit_sha) <= ShaPrefixLen
                     /\ Len(result.val.commit_sha) <= Len(trim(git.stdout))
                     /\ result.val.commit_sha
                           = SubSeq(trim(git.stdout), 1,
                                    Len(result.val.commit_sha))

\* C9: adding a key that is no field of the type to a document that decodes
\* leaves the decoding unchanged.
C9_UnknownKeysIgnored ==
    (op = "from_str" /\ edit.kind = "add_unknown")
        => LET base == Deserialize(ty, Serialize(ty, value))
           IN  /\ edit.key \notin RequiredFields(ty) \cup OptionalFields(ty)
               /\ WithoutKey(doc, edit.key) = Serialize(ty, value)
               /\ base.ok => (result.ok /\ result.val = base.val)
               /\ result.ok = base.ok

C9_Witness ==
    /\ op = "from_str"
    /\ ty = "Platform"
    /\ edit.kind = "add_unknown"
    /\ "extra" \in Keys(doc)
    /\ result.ok
    /\ result.val.os = value.os

\* C10 as stated: after a decode an optional field whose key is missing is
\* absent, and an optional field whose key the document holds is present,
\* whatever the value put under the key (a null included).
C10_PresentKeyIsPresent ==
    (op = "from_str" /\ result.ok)
        => /\ \A n \in OptionalFields(ty) :
                 n \notin Keys(doc) => result.val[n] = None
           /\ (edit.kind = "set" /\ edit.key \in OptionalFields(ty))
                 => result.val[edit.key] # None

\* C10 amended: after a decode an optional field is absent exactly when its
\* key is missing or holds null; a missing or null optional key does not
\* make a valid document fail to decode.
C10_AbsentIffMissingOrNull ==
    /\ (op = "from_str" /\ result.ok)
          => \A n \in OptionalFields(ty) :
                (result.val[n] = None)
                    <=> (n \notin Keys(doc) \/ doc.o[n] = JNull)
    /\ (/\ op = "from_str"
        /\ edit.key \in OptionalFields(ty)
        /\ edit.kind = "remove" \/ (edit.kind = "set" /\ edit.val = JNull)
        /\ Deserialize(ty, Serialize(ty, value)).ok)
          => (result.ok /\ result.val[edit.key] = None)

C10_Witness ==
    /\ op = "from_str"
    /\ ty = "Platform"
    /\ edit = [kind |-> "set", key |-> "cpu_vendor", val |-> JNull]
    /\ value.cpu_vendor # None
    /\ result.ok
    /\ result.val.cpu_vendor = None

\* C11: cpu_count is never zero: the Platform that Platform::current returns
\* (inside the Metadata that Metadata::create builds) and every Platform a
\* successful decode of a Platform document yields have cpu_count >= 1.
C11_CpuCountNeverZero ==
    /\ (op = "create" /\ result.outcome = "return")
          => result.val.platform.cpu_count >= 1
    /\ (op = "from_str" /\ ty = "Platform" /\ result.ok)
          => result.val.cpu_count >= 1

\* C12: the encoding of a BenchmarkResult has no `metadata` key exactly when
\* the bag is empty, a non-empty bag is encoded with every key and its nested
\* value, and a BenchmarkResult document that lacks the key (and is valid
\* with it) decodes with an empty bag.
C12_MetadataBagOmission ==
    /\ (op = "to_string" /\ ty = "BenchmarkResult")
          => /\ ("metadata" \notin Keys(doc)) <=> (DOMAIN value.metadata = {})
             /\ "metadata" \in Keys(doc)
                   => /\ doc.o["metadata"].t = "obj"
                      /\ DOMAIN doc.o["metadata"].o = DOMAIN value.metadata
                      /\ \A k \in DOMAIN value.metadata :
                            doc.o["metadata"].o[k] = value.metadata[k]
    /\ (/\ op = "from_str"
        /\ ty = "BenchmarkResult"
        /\ "metadata" \notin Keys(doc)
        /\ Deserialize(ty, WithKey(doc, "metadata", JObj(EmptyMap))).ok)
          => (result.ok /\ DOMAIN result.val.metadata = {})

C12_Witness ==
    /\ op = "from_str"
    /\ ty = "BenchmarkResult"
    /\ edit = [kind |-> "remove", key |-> "metadata", val |-> JNull]
    /\ "note" \in DOMAIN value.metadata
    /\ value.metadata["note"].t = "obj"
    /\ result.ok
    /\ DOMAIN result.val.metadata = {}

\* a MetricValue whose bounds are both present or both absent
Paired(m) == (m.lower_value = None) <=> (m.upper_value = None)

\* C13 as stated: every MetricValue produced by MetricValue::new, by
\* MetricValue::with_bounds, by MetricValue::default or by a successful
\* decode of a MetricValue document has both bounds present or both absent.
C13_BoundsPaired ==
    /\ op \in {"new", "with_bounds", "default"} => Paired(result.val)
    /\ (op = "from_str" /\ ty = "MetricValue" /\ result.ok)
          => Paired(result.val)

\* C13 amended: MetricValue::new and MetricValue::default set both bounds
\* absent and MetricValue::with_bounds sets both present, to its arguments;
\* a successful decode does not pair the bounds: each bound is present
\* exactly when the document holds a non-null value under its key.
C13_PairedByConstruction ==
    /\ op \in {"new", "default"}
          => (result.val.lower_value = None /\ result.val.upper_value = None)
    /\ op = "with_bounds"
          => /\ result.val.lower_value = Some(value[3])
             /\ result.val.upper_value = Some(value[4])
    /\ (op = "from_str" /\ ty = "MetricValue" /\ result.ok)
          => \A n \in {"lower_value", "upper_value"} :
                (result.val[n] # None)
                    <=> (n \in Keys(doc) /\ doc.o[n] # JNull)

C13_Witness ==
    /\ op = "from_str"
    /\ ty = "MetricValue"
    /\ edit = [kind |-> "remove", key |-> "upper_value", val |-> JNull]
    /\ Paired(value)
    /\ result.ok
    /\ result.val.lower_value # None
    /\ result.val.upper_value = None

====
